---- MODULE Spec2Model ----
(***************************************************************************)
(* Notification REST API (notifications/views.py, serializers.py, urls.py) *)
(* as a state machine over the notification table.  One action per routed  *)
(* request handler; the bulk_action handler is also given query by query   *)
(* for the interleaving analysis.                                          *)
(***************************************************************************)
EXTENDS Integers, Sequences, FiniteSets, TLC

VARIABLES
    store,    \* the notification table: id -> row, DOMAIN store = ids present
    nextId,   \* the table's auto-increment counter
    req,      \* the request handled last
    resp,     \* the response returned to it
    bulk      \* bulk_action requests in flight, query by query (SpecConc)

vars == <<store, nextId, req, resp, bulk>>

\* ------------------------------------------------------------- bounds
\* Largest notification id the table ever issues.
MaxId == 2

Ids == 1..MaxId
Users == {"alice", "bob"}

\* ------------------------------------------------------------ strings
\* Strings whose case matters are sequences of characters.
UpperCase == <<"A","B","C","D","E","F","G","H","I","J","K","L","M",
               "N","O","P","Q","R","S","T","U","V","W","X","Y","Z">>
LowerCase == <<"a","b","c","d","e","f","g","h","i","j","k","l","m",
               "n","o","p","q","r","s","t","u","v","w","x","y","z">>

LowerChar(c) ==
    IF \E i \in DOMAIN UpperCase : UpperCase[i] = c
    THEN LowerCase[CHOOSE i \in DOMAIN UpperCase : UpperCase[i] = c]
    ELSE c

\* str.lower()
lower(s) == [i \in 1..Len(s) |-> LowerChar(s[i])]

\* verb__icontains: case-insensitive substring
icontains(hay, needle) ==
    \E i \in 0..(Len(hay) - Len(needle)) :
        SubSeq(lower(hay), i + 1, i + Len(needle)) = lower(needle)

S_true  == <<"t","r","u","e">>
S_TRUE  == <<"T","R","U","E">>
S_1     == <<"1">>
S_false == <<"f","a","l","s","e">>
S_False == <<"F","a","l","s","e">>
S_0     == <<"0">>
S_yes   == <<"y","e","s">>
S_Liked == <<"L","i","k","e","d">>
S_sent  == <<"s","e","n","t">>
S_like  == <<"l","I","K","e">>

\* --------------------------------------------------------- the model
\* Notification.LEVELS
LEVELS == <<"success", "info", "warning", "error">>
LevelSet == {LEVELS[i] : i \in DOMAIN LEVELS}

\* Field defaults of a new row.
DefaultLevel == "info"
DefaultUnread == TRUE

\* QuerySet.unread() / QuerySet.read()
qs_unread(st, qs) == {id \in qs : st[id].unread}
qs_read(st, qs) == {id \in qs : ~st[id].unread}

\* Notification.mark_as_read() / mark_as_unread(): saved at once
mark_as_read(row) == IF row.unread THEN [row EXCEPT !.unread = FALSE] ELSE row
mark_as_unread(row) == IF ~row.unread THEN [row EXCEPT !.unread = TRUE] ELSE row

\* QuerySet.update(unread=v): the rows matched, and the table afterwards
qs_update(st, qs, v) ==
    [count |-> Cardinality(qs),
     store |-> [id \in DOMAIN st |->
                  IF id \in qs THEN [st[id] EXCEPT !.unread = v] ELSE st[id]]]

\* QuerySet.delete()
qs_delete(st, qs) == [id \in (DOMAIN st) \ qs |-> st[id]]

\* QuerySet.mark_all_as_read(recipient): the unread rows of the queryset
\* that belong to recipient are updated; returns the number updated.
mark_all_as_read(st, qs, recipient) ==
    qs_update(st, {id \in qs_unread(st, qs) : st[id].recipient = recipient}, FALSE)

mark_all_as_unread(st, qs, recipient) ==
    qs_update(st, {id \in qs_read(st, qs) : st[id].recipient = recipient}, TRUE)

\* Meta.ordering = ('-timestamp',): the orderings of a queryset the
\* database may return, newest first, ties in any order.
Orderings(st, qs) ==
    {s \in [1..Cardinality(qs) -> qs] :
        /\ \A i, j \in DOMAIN s : i # j => s[i] # s[j]
        /\ \A i, j \in DOMAIN s : i < j => st[s[i]].timestamp >= st[s[j]].timestamp}

\* ------------------------------------------------------------- views
\* NotificationPagination
page_size == 20
max_page_size == 100

\* Mutant of user_notifications: the scope to the caller is left out.
all_notifications(st, user) == DOMAIN st

\* self.request.user.notifications.all()
user_notifications(st, user) == {id \in DOMAIN st : st[id].recipient = user}

\* get_queryset, ?unread_only=
filter_unread_only(st, queryset, q) ==
    IF "unread_only" \in DOMAIN q
    THEN IF lower(q.unread_only) \in {S_true, S_1}
         THEN qs_unread(st, queryset)
         ELSE IF lower(q.unread_only) \in {S_false, S_0}
              THEN qs_read(st, queryset)
              ELSE queryset
    ELSE queryset

\* Mutant of filter_level: the level parameter is ignored.
no_filter_level(st, queryset, q) == queryset

\* get_queryset, ?level=
filter_level(st, queryset, q) ==
    IF "level" \in DOMAIN q /\ q.level # ""
    THEN {id \in queryset : st[id].level = q.level}
    ELSE queryset

\* get_queryset, ?verb=
filter_verb(st, queryset, q) ==
    IF "verb" \in DOMAIN q /\ q.verb # <<>>
    THEN {id \in queryset : icontains(st[id].verb, q.verb)}
    ELSE queryset

\* NotificationViewSet.get_queryset
get_queryset(st, user, q) ==
    filter_verb(st,
        filter_level(st,
            filter_unread_only(st, user_notifications(st, user), q), q), q)

\* self.get_object(): the row with this pk in the view's queryset, or 404
get_object_found(st, user, q, pk) == pk \in get_queryset(st, user, q)

\* ------------------------------------------------------- serializers
\* NotificationSerializer: the detailed shape
NotificationSerializer(st, id) ==
    [id |-> id, recipient |-> st[id].recipient, verb |-> st[id].verb,
     level |-> st[id].level, unread |-> st[id].unread,
     timestamp |-> st[id].timestamp]

\* NotificationListSerializer: the list shape
NotificationListSerializer(st, id) ==
    [id |-> id, verb |-> st[id].verb, level |-> st[id].level,
     unread |-> st[id].unread, timestamp |-> st[id].timestamp]

\* NotificationSerializer.Meta: fields a request body may write
WritableFields == {"recipient", "verb", "level", "unread"}
\* ... and those a full (PUT/POST) body must carry
RequiredFields == {"recipient", "verb"}

\* serializer.is_valid()
is_valid(body, partial) ==
    /\ partial \/ \A f \in RequiredFields : f \in DOMAIN body
    /\ "recipient" \in DOMAIN body => body.recipient \in Users
    /\ "level" \in DOMAIN body => body.level \in LevelSet

\* serializer.save() on an instance: every writable field of the body
save(row, body) ==
    [f \in DOMAIN row |->
        IF f \in WritableFields /\ f \in DOMAIN body THEN body[f] ELSE row[f]]

\* BulkActionSerializer
BulkActions == {"mark_read", "mark_unread", "delete"}

bulk_is_valid(ids, action) == ids # {} /\ action \in BulkActions

\* ---------------------------------------------------------- requests
NoQuery == <<>>
NoBody == <<>>

Request(op, user, id, ids, action, q, body) ==
    [op |-> op, user |-> user, id |-> id, ids |-> ids, action |-> action,
     q |-> q, body |-> body]

Response(status, data, count) ==
    [status |-> status, data |-> data, count |-> count]

NotFound == Response(404, <<>>, 0)
BadRequest == Response(400, <<>>, 0)

\* Query strings the requests of the model carry.
Queries ==
    {NoQuery, [unread_only |-> S_true], [unread_only |-> S_0],
     [level |-> "warning"]}

BulkQueries == {NoQuery, [level |-> "warning"]}

\* Request bodies of PATCH, PUT and POST.
PatchBodies ==
    {NoBody, [unread |-> TRUE], [unread |-> FALSE],
     [unread |-> FALSE, level |-> "bogus"]}
        \cup {[recipient |-> u] : u \in Users}

PutBodies ==
    {[unread |-> FALSE]} \cup {[recipient |-> u, verb |-> S_Liked] : u \in Users}

PostBodies ==
    {[verb |-> S_Liked]} \cup {[recipient |-> u, verb |-> S_Liked] : u \in Users}

Procs == {"r1", "r2"}
IdleProc == [pc |-> "idle"]
IdleBulk == [p \in Procs |-> IdleProc]

Rows(levels, verbs, times) ==
    [recipient : Users, unread : BOOLEAN, level : levels, verb : verbs,
     timestamp : times]

NoRequest == Request("none", "alice", 0, {}, "", NoQuery, NoBody)
NoResponse == Response(0, <<>>, 0)

\* The table as the external producer left it: ids are issued in order and
\* stamped in order, rows may have been deleted since.
Init ==
    /\ nextId \in MaxId..(MaxId + 1)
    /\ \E present \in SUBSET (1..(nextId - 1)) :
         store \in [present -> Rows({DefaultLevel}, {S_Liked}, Ids)]
    /\ \A id \in DOMAIN store : store[id].timestamp = id
    /\ req = NoRequest
    /\ resp = NoResponse
    /\ bulk = IdleBulk

\* ----------------------------------------------------------- handlers
\* PageNumberPagination.paginate_queryset over an ordered queryset
paginate(ordered, q) ==
    LET size == IF "page_size" \in DOMAIN q /\ q.page_size > 0
                THEN IF q.page_size > max_page_size THEN max_page_size
                     ELSE q.page_size
                ELSE page_size
        n == Len(ordered)
        pages == IF n = 0 THEN 1 ELSE (n + size - 1) \div size
        number == IF "page" \in DOMAIN q THEN q.page ELSE 1
        first == (number - 1) * size + 1
        last == IF number * size > n THEN n ELSE number * size
    IN  [ok |-> number >= 1 /\ number <= pages,
         page |-> SubSeq(ordered, first, last)]

\* GET /notifications/
list(user, q) ==
    /\ req' = Request("list", user, 0, {}, "", q, NoBody)
    /\ \E ordered \in Orderings(store, get_queryset(store, user, q)) :
         LET p == paginate(ordered, q)
         IN  resp' = IF p.ok
                     THEN Response(200,
                            [i \in DOMAIN p.page |->
                                NotificationListSerializer(store, p.page[i])],
                            Len(ordered))
                     ELSE NotFound
    /\ UNCHANGED <<store, nextId, bulk>>

\* GET /notifications/unread/
unread(user, q) ==
    /\ req' = Request("unread", user, 0, {}, "", q, NoBody)
    /\ \E ordered \in Orderings(store,
                        qs_unread(store, get_queryset(store, user, q))) :
         LET p == paginate(ordered, q)
         IN  resp' = IF p.ok
                     THEN Response(200,
                            [i \in DOMAIN p.page |->
                                NotificationSerializer(store, p.page[i])],
                            Len(ordered))
                     ELSE NotFound
    /\ UNCHANGED <<store, nextId, bulk>>

\* GET /notifications/unread_count/
unread_count(user, q) ==
    /\ req' = Request("unread_count", user, 0, {}, "", q, NoBody)
    /\ resp' = Response(200, <<>>,
                 Cardinality(qs_unread(store, get_queryset(store, user, q))))
    /\ UNCHANGED <<store, nextId, bulk>>

\* GET /notifications/levels/
levels(user) ==
    /\ req' = Request("levels", user, 0, {}, "", NoQuery, NoBody)
    /\ resp' = Response(200, [i \in DOMAIN LEVELS |-> [value |-> LEVELS[i]]],
                        Len(LEVELS))
    /\ UNCHANGED <<store, nextId, bulk>>

\* GET /notifications/{id}/
retrieve(user, pk, q) ==
    /\ req' = Request("retrieve", user, pk, {}, "", q, NoBody)
    /\ resp' = IF get_object_found(store, user, q, pk)
               THEN Response(200, <<NotificationSerializer(store, pk)>>, 0)
               ELSE NotFound
    /\ UNCHANGED <<store, nextId, bulk>>

\* NotificationViewSet.perform_destroy: the table afterwards.  Its 403
\* response object is returned to destroy(), which drops it.
perform_destroy(st, user, pk) ==
    IF st[pk].recipient # user THEN st ELSE qs_delete(st, {pk})

\* DELETE /notifications/{id}/
destroy(user, pk, q) ==
    /\ req' = Request("destroy", user, pk, {}, "", q, NoBody)
    /\ IF get_object_found(store, user, q, pk)
       THEN /\ store' = perform_destroy(store, user, pk)
            /\ resp' = Response(204, <<>>, 0)
       ELSE /\ store' = store
            /\ resp' = NotFound
    /\ UNCHANGED <<nextId, bulk>>

\* PATCH /notifications/{id}/
partial_update(user, pk, q, body) ==
    /\ req' = Request("partial_update", user, pk, {}, "", q, body)
    /\ IF ~get_object_found(store, user, q, pk)
       THEN store' = store /\ resp' = NotFound
       ELSE IF store[pk].recipient # user
       THEN store' = store /\ resp' = Response(403, <<>>, 0)
       ELSE LET marked == IF "unread" \in DOMAIN body
                          THEN IF body.unread THEN mark_as_unread(store[pk])
                               ELSE mark_as_read(store[pk])
                          ELSE store[pk]
            IN  IF ~is_valid(body, TRUE)
                THEN /\ store' = [store EXCEPT ![pk] = marked]
                     /\ resp' = BadRequest
                ELSE /\ store' = [store EXCEPT ![pk] = save(marked, body)]
                     /\ resp' = Response(200,
                                  <<NotificationSerializer(store', pk)>>, 0)
    /\ UNCHANGED <<nextId, bulk>>

\* PUT /notifications/{id}/ (ModelViewSet.update)
update(user, pk, q, body) ==
    /\ req' = Request("update", user, pk, {}, "", q, body)
    /\ IF ~get_object_found(store, user, q, pk)
       THEN store' = store /\ resp' = NotFound
       ELSE IF ~is_valid(body, FALSE)
       THEN store' = store /\ resp' = BadRequest
       ELSE /\ store' = [store EXCEPT ![pk] = save(store[pk], body)]
            /\ resp' = Response(200, <<NotificationSerializer(store', pk)>>, 0)
    /\ UNCHANGED <<nextId, bulk>>

\* POST /notifications/ (ModelViewSet.create)
create(user, body) ==
    /\ nextId <= MaxId
    /\ req' = Request("create", user, 0, {}, "", NoQuery, body)
    /\ IF ~is_valid(body, FALSE)
       THEN /\ store' = store
            /\ nextId' = nextId
            /\ resp' = BadRequest
       ELSE LET new == [recipient |-> body.recipient, unread |-> DefaultUnread,
                        level |-> DefaultLevel, verb |-> body.verb,
                        timestamp |-> nextId]
            IN  /\ store' = [id \in DOMAIN store \cup {nextId} |->
                               IF id = nextId THEN save(new, body) ELSE store[id]]
                /\ nextId' = nextId + 1
                /\ resp' = Response(201,
                             <<NotificationSerializer(store', nextId)>>, 0)
    /\ UNCHANGED bulk

\* POST /notifications/{id}/mark_read/
mark_read(user, pk, q) ==
    /\ req' = Request("mark_read", user, pk, {}, "", q, NoBody)
    /\ IF ~get_object_found(store, user, q, pk)
       THEN store' = store /\ resp' = NotFound
       ELSE IF store[pk].recipient # user
       THEN store' = store /\ resp' = Response(403, <<>>, 0)
       ELSE /\ store' = [store EXCEPT ![pk] = mark_as_read(store[pk])]
            /\ resp' = Response(200, <<>>, 0)
    /\ UNCHANGED <<nextId, bulk>>

\* POST /notifications/{id}/mark_unread/
mark_unread(user, pk, q) ==
    /\ req' = Request("mark_unread", user, pk, {}, "", q, NoBody)
    /\ IF ~get_object_found(store, user, q, pk)
       THEN store' = store /\ resp' = NotFound
       ELSE IF store[pk].recipient # user
       THEN store' = store /\ resp' = Response(403, <<>>, 0)
       ELSE /\ store' = [store EXCEPT ![pk] = mark_as_unread(store[pk])]
            /\ resp' = Response(200, <<>>, 0)
    /\ UNCHANGED <<nextId, bulk>>

\* POST /notifications/mark_all_read/
mark_all_read(user, q) ==
    LET r == mark_all_as_read(store, get_queryset(store, user, q), user)
    IN  /\ req' = Request("mark_all_read", user, 0, {}, "", q, NoBody)
        /\ store' = r.store
        /\ resp' = Response(200, <<>>, r.count)
        /\ UNCHANGED <<nextId, bulk>>

\* POST /notifications/mark_all_unread/
mark_all_unread(user, q) ==
    LET r == mark_all_as_unread(store, get_queryset(store, user, q), user)
    IN  /\ req' = Request("mark_all_unread", user, 0, {}, "", q, NoBody)
        /\ store' = r.store
        /\ resp' = Response(200, <<>>, r.count)
        /\ UNCHANGED <<nextId, bulk>>

\* bulk_action's lazy queryset: evaluated anew by every query made on it
bulk_notifications(st, user, q, ids) == get_queryset(st, user, q) \cap ids

\* Mutant of bulk_exists: the emptiness test always passes.
bulk_exists_unchecked(st, user, q, ids) == TRUE

\* notifications.exists()
bulk_exists(st, user, q, ids) == bulk_notifications(st, user, q, ids) # {}

\* POST /notifications/bulk_action/, its queries run back to back
bulk_action(user, ids, action, q) ==
    /\ req' = Request("bulk_action", user, 0, ids, action, q, NoBody)
    /\ IF ~bulk_is_valid(ids, action)
       THEN store' = store /\ resp' = BadRequest
       ELSE IF ~bulk_exists(store, user, q, ids)
       THEN store' = store /\ resp' = NotFound
       ELSE LET notifications == bulk_notifications(store, user, q, ids)
            IN  CASE action = "mark_read" ->
                       /\ store' = qs_update(store, notifications, FALSE).store
                       /\ resp' = Response(200, <<>>,
                                    qs_update(store, notifications, FALSE).count)
                  [] action = "mark_unread" ->
                       /\ store' = qs_update(store, notifications, TRUE).store
                       /\ resp' = Response(200, <<>>,
                                    qs_update(store, notifications, TRUE).count)
                  [] action = "delete" ->
                       /\ store' = qs_delete(store, notifications)
                       /\ resp' = Response(200, <<>>, Cardinality(notifications))
    /\ UNCHANGED <<nextId, bulk>>

\* The routes of router.register('notifications', NotificationViewSet).
Next ==
    \/ \E user \in Users, q \in Queries : list(user, q)
    \/ \E user \in Users, q \in Queries : unread(user, q)
    \/ \E user \in Users, q \in Queries : unread_count(user, q)
    \/ \E user \in Users : levels(user)
    \/ \E user \in Users, pk \in Ids, q \in Queries : retrieve(user, pk, q)
    \/ \E user \in Users, pk \in Ids, q \in Queries : destroy(user, pk, q)
    \/ \E user \in Users, pk \in Ids, body \in PatchBodies :
         partial_update(user, pk, NoQuery, body)
    \/ \E user \in Users, pk \in Ids, body \in PutBodies :
         update(user, pk, NoQuery, body)
    \/ \E user \in Users, body \in PostBodies : create(user, body)
    \/ \E user \in Users, pk \in Ids, q \in Queries : mark_read(user, pk, q)
    \/ \E user \in Users, pk \in Ids, q \in Queries : mark_unread(user, pk, q)
    \/ \E user \in Users, q \in Queries : mark_all_read(user, q)
    \/ \E user \in Users, q \in Queries : mark_all_unread(user, q)
    \/ \E user \in Users, ids \in SUBSET Ids, action \in BulkActions,
          q \in BulkQueries : bulk_action(user, ids, action, q)

Spec == Init /\ [][Next]_vars

\* ------------------------------------------------------------- claims
\* Requests addressed to one notification by its identifier.
IdOps == {"retrieve", "update", "partial_update", "destroy", "mark_read",
          "mark_unread"}

\* The ids of a bulk_action request that are rows of the caller.
OwnedIds(st, r) == {id \in r.ids \cap DOMAIN st : st[id].recipient = r.user}

\* C1: an identifier-addressed request (retrieve, PUT, PATCH, DELETE,
\* mark_read, mark_unread) by a caller who is not the notification's
\* recipient returns none of its content and leaves the whole table as it
\* was: no field changed, no row removed.
C1_OwnershipIsolation ==
    [][(/\ req'.op \in IdOps
        /\ req'.id \in DOMAIN store
        /\ store[req'.id].recipient # req'.user)
       => (/\ resp'.status \notin {200, 201, 204}
           /\ resp'.data = <<>>
           /\ store' = store)]_vars

\* C1 witness: a non-recipient's DELETE of an existing notification, with no
\* query string, has been answered and the notification is still there.
C1_Witness ==
    /\ req.op = "destroy"
    /\ req.q = NoQuery
    /\ req.id \in DOMAIN store
    /\ store[req.id].recipient # req.user
    /\ resp.status = 404

\* C2: a bulk_action whose id list mixes ids owned by the caller with ids
\* not owned or not existing, whatever query string it carries, succeeds,
\* applies the action to exactly the owned ids and to nothing else, and
\* reports their number as affected_count.
C2_BulkAppliesToOwnedIds ==
    [][(/\ req'.op = "bulk_action"
        /\ OwnedIds(store, req') # {}
        /\ req'.ids \ OwnedIds(store, req') # {})
       => LET owned == OwnedIds(store, req')
          IN  /\ resp'.status = 200
              /\ resp'.count = Cardinality(owned)
              /\ store' = CASE req'.action = "mark_read" ->
                                 qs_update(store, owned, FALSE).store
                            [] req'.action = "mark_unread" ->
                                 qs_update(store, owned, TRUE).store
                            [] req'.action = "delete" ->
                                 qs_delete(store, owned)]_vars

\* C3: every mark_all_read request of user U leaves each notification of U
\* read, changes no notification of another user, removes nothing, and
\* returns as marked_count the number of U's notifications that were unread
\* just before the call.
C3_MarkAllReadMarksAll ==
    [][req'.op = "mark_all_read"
       => /\ DOMAIN store' = DOMAIN store
          /\ \A id \in DOMAIN store :
                IF store[id].recipient = req'.user
                THEN store'[id] = [store[id] EXCEPT !.unread = FALSE]
                ELSE store'[id] = store[id]
          /\ resp'.count =
                Cardinality({id \in DOMAIN store :
                    store[id].recipient = req'.user /\ store[id].unread})]_vars

\* C4: DELETE of a notification by a caller who is not its recipient is
\* answered 403 Forbidden, and the notification stays, unchanged.
C4_DeleteByOtherForbidden ==
    [][(/\ req'.op = "destroy"
        /\ req'.id \in DOMAIN store
        /\ store[req'.id].recipient # req'.user)
       => (resp'.status = 403 /\ store' = store)]_vars

\* C5: no request changes the recipient of a stored notification.
C5_RecipientImmutable ==
    [][\A id \in DOMAIN store \cap DOMAIN store' :
          store'[id].recipient = store[id].recipient]_vars

\* C6: no request adds a notification: the set of stored ids only shrinks
\* or stays the same.
C6_NoRequestCreates ==
    [][DOMAIN store' \subseteq DOMAIN store]_vars

\* C7: a bulk_action whose (non-empty) id list holds no id owned by the
\* caller is answered 404 NotFound and changes nothing, for each action.
C7_BulkNothingOwnedNotFound ==
    [][(/\ req'.op = "bulk_action"
        /\ req'.ids # {}
        /\ OwnedIds(store, req') = {})
       => (resp' = NotFound /\ store' = store)]_vars

\* C7 witness: a bulk delete naming only another user's existing
\* notification has been answered 404.
C7_Witness ==
    /\ req.op = "bulk_action"
    /\ req.action = "delete"
    /\ req.q = NoQuery
    /\ \E id \in req.ids : id \in DOMAIN store /\ store[id].recipient # req.user
    /\ OwnedIds(store, req) = {}
    /\ resp = NotFound

\* C9: the same mark_read (mark_unread) request sent again directly after it
\* succeeded succeeds again and leaves the table as the first call left it.
C9_MarkReadIdempotent ==
    [][(/\ req.op \in {"mark_read", "mark_unread"}
        /\ resp.status = 200
        /\ req' = req)
       => (resp'.status = 200 /\ store' = store)]_vars

\* ------------------------------------------------------ the list query
\* Query strings of the list requests: every combination of the three
\* filters, and the paging parameters.
ListQueries ==
    {uo @@ lv @@ vb :
        uo \in {NoQuery} \cup {[unread_only |-> v] :
                    v \in {S_true, S_TRUE, S_1, S_False, S_0, S_yes}},
        lv \in {NoQuery, [level |-> ""], [level |-> "warning"]},
        vb \in {NoQuery, [verb |-> S_like]}}
    \cup {[page_size |-> 1], [page_size |-> 1, page |-> 2], [page |-> 2]}

\* Timestamps the producer gave the rows: rising with the id, falling with
\* it, or all the same.
Stamp(pattern, id) ==
    CASE pattern = "rising" -> id
      [] pattern = "falling" -> MaxId + 1 - id
      [] pattern = "same" -> 1

\* A table of the producer's and a list request about to be handled.
InitList ==
    /\ nextId = MaxId + 1
    /\ \E present \in SUBSET Ids :
         store \in [present -> Rows({"info", "warning"}, {S_Liked, S_sent}, Ids)]
    /\ \E pattern \in {"rising", "falling", "same"} :
         \A id \in DOMAIN store : store[id].timestamp = Stamp(pattern, id)
    /\ \E user \in Users, q \in ListQueries :
         req = Request("list", user, 0, {}, "", q, NoBody)
    /\ resp = NoResponse
    /\ bulk = IdleBulk

NextList ==
    \E user \in Users, q \in ListQueries :
        /\ req = Request("list", user, 0, {}, "", q, NoBody)
        /\ resp = NoResponse
        /\ list(user, q)

SpecList == InitList /\ [][NextList]_vars

\* The caller's notifications that pass the filters of query string q, each
\* filter as the claim words it; unread_only is compared in lower case when
\* caseless, as written otherwise.
Selected(st, user, q, caseless, level_given) ==
    {id \in DOMAIN st :
        /\ st[id].recipient = user
        /\ ("unread_only" \in DOMAIN q
              /\ (IF caseless THEN lower(q.unread_only) ELSE q.unread_only)
                    \in {S_true, S_1})
              => st[id].unread
        /\ ("unread_only" \in DOMAIN q
              /\ (IF caseless THEN lower(q.unread_only) ELSE q.unread_only)
                    \in {S_false, S_0})
              => ~st[id].unread
        /\ level_given => st[id].level = q.level
        /\ ("verb" \in DOMAIN q /\ q.verb # <<>>)
              => icontains(st[id].verb, q.verb)}

Min(a, b) == IF a < b THEN a ELSE b

\* The response is the requested page of `expected`, newest first.
IsPageOf(st, r, expected) ==
    LET q == req.q
        size == IF "page_size" \in DOMAIN q THEN q.page_size ELSE page_size
        number == IF "page" \in DOMAIN q THEN q.page ELSE 1
        n == Cardinality(expected)
        before == (number - 1) * size
    IN  IF number > 1 /\ before >= n
        THEN r = NotFound
        ELSE /\ r.status = 200
             /\ r.count = n
             /\ Len(r.data) = Min(size, n - before)
             /\ \A i \in DOMAIN r.data :
                   /\ r.data[i].id \in expected
                   /\ r.data[i] = NotificationListSerializer(st, r.data[i].id)
             /\ \A i, j \in DOMAIN r.data :
                   i < j => /\ r.data[i].id # r.data[j].id
                            /\ r.data[i].timestamp >= r.data[j].timestamp
             \* rows left out are no newer than the page's if they follow it,
             \* no older if they precede it
             /\ Cardinality({id \in expected :
                   \A i \in DOMAIN r.data : st[id].timestamp > r.data[i].timestamp})
                  <= before

\* C8 as amended: the list response is the requested page of exactly the
\* caller's notifications that pass every supplied filter, newest timestamp
\* first; unread_only is compared case-insensitively ("true"/"1" keep only
\* unread, "false"/"0" keep only read, absent or anything else keeps both),
\* a non-empty level keeps only that exact level (an empty one keeps all),
\* a non-empty verb keeps the verbs containing it, case-insensitively.
C8_ListIsFilteredIntersection ==
    (req.op = "list" /\ resp # NoResponse)
       => IsPageOf(store, resp,
             Selected(store, req.user, req.q, TRUE,
                      "level" \in DOMAIN req.q /\ req.q.level # ""))

\* C8 witness: unread_only=true with level=warning has listed a caller's
\* unread warning while the caller also has a notification that is left out.
C8_Witness ==
    /\ req.op = "list"
    /\ "unread_only" \in DOMAIN req.q /\ req.q.unread_only = S_true
    /\ "level" \in DOMAIN req.q /\ req.q.level = "warning"
    /\ "verb" \notin DOMAIN req.q
    /\ resp.status = 200
    /\ Len(resp.data) = 1
    /\ resp.data[1].unread /\ resp.data[1].level = "warning"
    /\ \E id \in DOMAIN store :
          /\ store[id].recipient = req.user
          /\ id # resp.data[1].id

\* C8 as claimed: unread_only filters only when it is exactly "true", "1",
\* "false" or "0", and a supplied level always keeps only that exact level.
C8_ListAsClaimed ==
    (req.op = "list" /\ resp # NoResponse)
       => IsPageOf(store, resp,
             Selected(store, req.user, req.q, FALSE,
                      "level" \in DOMAIN req.q))

\* ------------------------------------- bulk_action, query by query
\* The handler runs outside any transaction: each of its queries
\* (exists, update, count, delete) is a statement of its own, and the
\* requests of other workers run between them.

\* The request arrives and its body is validated.
bulk_begin(p, user, ids, action, q) ==
    /\ bulk[p].pc = "idle"
    /\ bulk_is_valid(ids, action)
    /\ bulk' = [bulk EXCEPT ![p] =
                  [pc |-> "exists", user |-> user, ids |-> ids,
                   action |-> action, q |-> q, tested |-> {}, acted |-> {},
                   count |-> 0, status |-> 0]]
    /\ UNCHANGED <<store, nextId, req, resp>>

\* if not notifications.exists(): 404
bulk_step_exists(p) ==
    /\ bulk[p].pc = "exists"
    /\ LET b == bulk[p]
           found == bulk_exists(store, b.user, b.q, b.ids)
       IN  bulk' = [bulk EXCEPT
                ![p].tested = bulk_notifications(store, b.user, b.q, b.ids),
                ![p].status = IF found THEN 0 ELSE 404,
                ![p].pc = IF ~found THEN "done"
                          ELSE IF b.action = "delete" THEN "count"
                          ELSE "update"]
    /\ UNCHANGED <<store, nextId, req, resp>>

\* count = notifications.update(unread=...)
bulk_step_update(p) ==
    /\ bulk[p].pc = "update"
    /\ LET b == bulk[p]
           notifications == bulk_notifications(store, b.user, b.q, b.ids)
           r == qs_update(store, notifications, b.action = "mark_unread")
       IN  /\ store' = r.store
           /\ bulk' = [bulk EXCEPT ![p].acted = notifications,
                                   ![p].count = r.count,
                                   ![p].status = 200,
                                   ![p].pc = "done"]
    /\ UNCHANGED <<nextId, req, resp>>

\* count = notifications.count()
bulk_step_count(p) ==
    /\ bulk[p].pc = "count"
    /\ LET b == bulk[p]
       IN  bulk' = [bulk EXCEPT
                ![p].count =
                    Cardinality(bulk_notifications(store, b.user, b.q, b.ids)),
                ![p].pc = "delete"]
    /\ UNCHANGED <<store, nextId, req, resp>>

\* notifications.delete()
bulk_step_delete(p) ==
    /\ bulk[p].pc = "delete"
    /\ LET b == bulk[p]
           notifications == bulk_notifications(store, b.user, b.q, b.ids)
       IN  /\ store' = qs_delete(store, notifications)
           /\ bulk' = [bulk EXCEPT ![p].acted = notifications,
                                   ![p].status = 200,
                                   ![p].pc = "done"]
    /\ UNCHANGED <<nextId, req, resp>>

InitConc ==
    /\ Init
    /\ nextId = MaxId + 1

\* Two workers each handle one bulk_action while single-notification
\* requests are served in between.
NextConc ==
    \/ \E p \in Procs, user \in Users, ids \in SUBSET Ids,
          action \in BulkActions : bulk_begin(p, user, ids, action, NoQuery)
    \/ \E p \in Procs : bulk_step_exists(p)
    \/ \E p \in Procs : bulk_step_update(p)
    \/ \E p \in Procs : bulk_step_count(p)
    \/ \E p \in Procs : bulk_step_delete(p)
    \/ \E user \in Users, pk \in Ids : destroy(user, pk, NoQuery)
    \/ \E user \in Users, pk \in Ids : mark_read(user, pk, NoQuery)
    \/ \E user \in Users, pk \in Ids : mark_unread(user, pk, NoQuery)

SpecConc == InitConc /\ [][NextConc]_vars

\* C10: when a bulk_action has answered success, the set it tested for
\* existence is the set it acted on, and the affected_count it reports is
\* the size of that set: for delete, the number of notifications this
\* request removed.
C10_BulkActionAtomic ==
    \A p \in Procs :
        (bulk[p].pc = "done" /\ bulk[p].status = 200)
           => /\ bulk[p].tested = bulk[p].acted
              /\ bulk[p].count = Cardinality(bulk[p].acted)
====
